---- MODULE Spec2Model ----
(***************************************************************************)
(* A model of generate_link_secret.py: generate_and_write_secret and the   *)
(* script's entry point, over a small POSIX-like file system.              *)
(*                                                                         *)
(* A path is a sequence of tokens: the separator "/" or a maximal run of   *)
(* non-separator characters ("tmp", ".", "out.txt").  A text is a sequence *)
(* of one-character strings.  A byte is a number in 0..255.                *)
(***************************************************************************)
EXTENDS Integers, Sequences, FiniteSets, TLC

\* ------------------------------------------------------------------ bounds
\* Seeds of the sample secrets the random source may return: 0..MaxSeed.
MaxSeed == 1
\* Calls a sequential caller makes to generate_and_write_secret.
MaxCalls == 2
\* ------------------------------------------------------- program constants
\* secrets.token_bytes(32)
SecretBytes == 32

\* The processes: two runs of the script started simultaneously.
Procs == {1, 2}

\* ------------------------------------------------------------ pure helpers
Sep == "/"

HexDigits ==
    <<"0", "1", "2", "3", "4", "5", "6", "7",
      "8", "9", "a", "b", "c", "d", "e", "f">>

UpperHexDigits ==
    <<"0", "1", "2", "3", "4", "5", "6", "7",
      "8", "9", "A", "B", "C", "D", "E", "F">>

\* bytes.hex() with capital digits, as "%02X" would print them.
HexUpper(bytes) ==
    [i \in 1..(2 * Len(bytes)) |->
        LET b == bytes[(i + 1) \div 2]
        IN  IF i % 2 = 1 THEN UpperHexDigits[(b \div 16) + 1]
                         ELSE UpperHexDigits[(b % 16) + 1]]

\* bytes.hex(): two lowercase digits per byte, high nibble first.
Hex(bytes) ==
    [i \in 1..(2 * Len(bytes)) |->
        LET b == bytes[(i + 1) \div 2]
        IN  IF i % 2 = 1 THEN HexDigits[(b \div 16) + 1]
                         ELSE HexDigits[(b % 16) + 1]]

\* secrets.token_bytes(n): the byte strings the random source is sampled at.
SampleBytes(seed, n) == [i \in 1..n |-> (seed * 101 + i * 37) % 256]

TokenBytes(n) == {SampleBytes(seed, n) : seed \in 0..MaxSeed}

StartsWithSep(path) == Len(path) > 0 /\ path[1] = Sep

EndsWithSep(path) == Len(path) > 0 /\ path[Len(path)] = Sep

\* os.path.join(a, b) of posixpath.
PathJoin(a, b) ==
    IF StartsWithSep(b) THEN b
    ELSE IF a = <<>> \/ EndsWithSep(a) THEN a \o b
    ELSE a \o <<Sep>> \o b

\* ------------------------------------------------------------- file system
\* The file system's name of a path: its root ("/" or the working
\* directory) followed by its components, with empty and "." components
\* dropped, so "/tmp//out.txt" and "/tmp/out.txt" name one file.
IsName(tok) == tok # Sep /\ tok # "."

Resolve(path) ==
    <<IF StartsWithSep(path) THEN Sep ELSE "cwd">> \o SelectSeq(path, IsName)

Parent(node) == SubSeq(node, 1, Len(node) - 1)

\* The content of a file after write(2) of data at offset pos.
Overwrite(content, pos, data) ==
    LET n == IF Len(content) > pos + Len(data) THEN Len(content)
                                               ELSE pos + Len(data)
    IN  [i \in 1..n |->
            IF i > pos /\ i <= pos + Len(data) THEN data[i - pos]
            ELSE IF i <= Len(content) THEN content[i]
            ELSE "\\0"]

\* The numbers of characters a failing write may get to the file before
\* the error: none, half, all but one.
ShortCounts(n) == {k \in {0, n \div 2, n - 1} : k >= 0 /\ k < n}

\* open(file_path, "a"): append, keeping what the file holds.
OpenModeAppend == "a"

\* open(file_path, "r+"): update in place, no truncation, no creation.
OpenModeUpdate == "r+"

\* open(file_path, "w")
OpenMode == "w"

Creates(mode) == mode \in {"w", "a"}

Truncates(mode) == mode = "w"

Appends(mode) == mode = "a"

\* The directories of the file system that refuse new entries.
RoDirs == {<<Sep, "ro">>}

\* The outcome of open(path, mode) on the file system (ds, fs).
OpenOutcome(ds, fs, path, mode) ==
    LET node == Resolve(path)
    IN  IF Parent(node) \notin ds THEN "FileNotFoundError"
        ELSE IF node \in ds THEN "IsADirectoryError"
        ELSE IF node \notin DOMAIN fs /\ ~Creates(mode) THEN "FileNotFoundError"
        ELSE IF node \notin DOMAIN fs /\ Parent(node) \in RoDirs
             THEN "PermissionError"
        ELSE "ok"

\* The files after a successful open(path, mode).
OpenedFiles(fs, path, mode) ==
    LET node == Resolve(path)
    IN  IF node \in DOMAIN fs /\ ~Truncates(mode) THEN fs
        ELSE (node :> <<>>) @@ fs

\* The files after the handle h gets data to its file.
Flushed(fs, h, data) ==
    LET node == Resolve(h.path)
        old  == fs[node]
    IN  (node :> Overwrite(old, IF Appends(h.mode) THEN Len(old) ELSE h.pos, data))
        @@ fs

NoHandle == [open |-> FALSE, path |-> <<>>, mode |-> "", pos |-> 0, buffer |-> <<>>]

NoResult == [kind |-> "none", value |-> <<>>]

NoCall == [pc |-> "idle", directory |-> <<>>, file_name |-> <<>>, hex |-> <<>>]

\* A close() that gives up, descriptor still open, when the flush fails.
ReleasedOnlyWhenFlushed(h, flushed) ==
    IF flushed THEN [h EXCEPT !.open = FALSE, !.buffer = <<>>] ELSE h

\* The handle after close(): the descriptor is given back whether or not
\* the buffered text reached the file.
Released(h, flushed) == [h EXCEPT !.open = FALSE, !.buffer = <<>>]

\* ------------------------------------------------------------------ inputs
DirTmp == <<Sep, "tmp">>
DirTmpSlash == <<Sep, "tmp", Sep>>
DirMissing == <<Sep, "no", Sep, "such", Sep, "dir">>
DirReadOnly == <<Sep, "ro">>
DirCrypto == <<".", Sep, "crypto_data">>

Directories == {DirTmp, DirTmpSlash, DirMissing, DirReadOnly, DirCrypto}

FileOut == <<"out.txt">>
FileLink == <<"link_secret.txt">>

\* The (directory, file_name) pairs the operation is called with; the
\* file names are base names, as file_name is documented to be.
Arguments ==
    {<<d, FileOut>> : d \in Directories} \cup {<<DirTmp, FileLink>>}

\* What an earlier run left in a secret file.
OldSecret == Hex(SampleBytes(MaxSeed + 1, SecretBytes))

BaseDirs == {<<Sep>>, <<Sep, "tmp">>, <<Sep, "ro">>, <<"cwd">>}

CryptoNode == <<"cwd", "crypto_data">>

\* The file systems a run may start on: ./crypto_data present or not,
\* the secret files present (from an earlier run) or not, and one
\* unrelated file.
InitDirs == {BaseDirs, BaseDirs \cup {CryptoNode}}

OtherFile == (<<Sep, "tmp", "notes.txt">> :> <<"n", "o", "t", "e">>)

InitFiles(ds) ==
    {OtherFile,
     (<<Sep, "tmp", "out.txt">> :> OldSecret) @@ OtherFile}
    \cup IF CryptoNode \in ds
         THEN {(CryptoNode \o FileLink :> OldSecret) @@ OtherFile}
         ELSE {}

\* ------------------------------------------------------------------- state
VARIABLES
    dirs,               \* the directories that exist
    files,              \* the files that exist: node -> text
    pc,                 \* where each process is
    directory,          \* generate_and_write_secret's parameters
    file_name,
    random_binary,      \* and its locals
    hex_representation,
    file_path,
    handle,             \* the file object of the with statement
    result,             \* what the call gave its caller: a value or an error
    stdout,             \* the lines each process printed
    stderr,             \* the error each process died of
    calls,              \* calls made so far by each process
    pre,                \* history: the file system when the call began,
                        \* and the call before it
    opens,              \* history: open() attempts of the call
    closeOrder          \* history: the processes of the closes that
                        \* got their text to the file, in order

vars ==
    <<dirs, files, pc, directory, file_name, random_binary,
      hex_representation, file_path, handle, result, stdout, stderr, calls,
      pre, opens, closeOrder>>

locals == <<random_binary, hex_representation, file_path>>
args == <<directory, file_name>>
outputs == <<stdout, stderr>>

InitProcs(start) ==
    /\ pc = [p \in Procs |-> start]
    /\ directory = [p \in Procs |-> <<>>]
    /\ file_name = [p \in Procs |-> <<>>]
    /\ random_binary = [p \in Procs |-> <<>>]
    /\ hex_representation = [p \in Procs |-> <<>>]
    /\ file_path = [p \in Procs |-> <<>>]
    /\ handle = [p \in Procs |-> NoHandle]
    /\ result = [p \in Procs |-> NoResult]
    /\ stdout = [p \in Procs |-> <<>>]
    /\ stderr = [p \in Procs |-> <<>>]
    /\ calls = [p \in Procs |-> 0]
    /\ opens = [p \in Procs |-> 0]
    /\ closeOrder = <<>>

InitFs ==
    /\ dirs \in InitDirs
    /\ files \in InitFiles(dirs)
    /\ pre = [p \in Procs |-> [dirs |-> dirs, files |-> files, last |-> NoCall]]

\* ------------------------------------------- generate_and_write_secret
\* Entering the function: fresh locals.
Enter(p, d, f) ==
    /\ pc' = [pc EXCEPT ![p] = "l9"]
    /\ directory' = [directory EXCEPT ![p] = d]
    /\ file_name' = [file_name EXCEPT ![p] = f]
    /\ random_binary' = [random_binary EXCEPT ![p] = <<>>]
    /\ hex_representation' = [hex_representation EXCEPT ![p] = <<>>]
    /\ file_path' = [file_path EXCEPT ![p] = <<>>]
    /\ handle' = [handle EXCEPT ![p] = NoHandle]
    /\ result' = [result EXCEPT ![p] = NoResult]
    /\ calls' = [calls EXCEPT ![p] = @ + 1]
    /\ pre' = [pre EXCEPT ![p] =
          [dirs |-> dirs, files |-> files,
           last |-> [pc |-> pc[p], directory |-> directory[p],
                     file_name |-> file_name[p],
                     hex |-> hex_representation[p]]]]
    /\ opens' = [opens EXCEPT ![p] = 0]
    /\ UNCHANGED <<dirs, files, outputs, closeOrder>>

\* A caller (a test, another module) calls the function, again after it
\* returned or raised.
Call(p) ==
    /\ pc[p] \in {"idle", "returned", "raised"}
    /\ calls[p] < MaxCalls
    /\ \E a \in Arguments : Enter(p, a[1], a[2])

\* random_binary = secrets.token_bytes(32)
GenerateStep(p) ==
    /\ pc[p] = "l9"
    /\ \E bytes \in TokenBytes(SecretBytes) :
          random_binary' = [random_binary EXCEPT ![p] = bytes]
    /\ pc' = [pc EXCEPT ![p] = "l10"]
    /\ UNCHANGED <<dirs, files, args, hex_representation, file_path, handle,
                   result, outputs, calls, pre, opens, closeOrder>>

\* hex_representation = random_binary.hex()
HexStep(p) ==
    /\ pc[p] = "l10"
    /\ hex_representation' =
          [hex_representation EXCEPT ![p] = Hex(random_binary[p])]
    /\ pc' = [pc EXCEPT ![p] = "l11"]
    /\ UNCHANGED <<dirs, files, args, random_binary, file_path, handle,
                   result, outputs, calls, pre, opens, closeOrder>>

\* file_path = file_name: the directory forgotten.
JoinStepNoDirectory(p) ==
    /\ pc[p] = "l11"
    /\ file_path' = [file_path EXCEPT ![p] = file_name[p]]
    /\ pc' = [pc EXCEPT ![p] = "l12"]
    /\ UNCHANGED <<dirs, files, args, random_binary, hex_representation,
                   handle, result, outputs, calls, pre, opens, closeOrder>>

\* file_path = os.path.join(directory, file_name)
JoinStep(p) ==
    /\ pc[p] = "l11"
    /\ file_path' = [file_path EXCEPT ![p] = PathJoin(directory[p], file_name[p])]
    /\ pc' = [pc EXCEPT ![p] = "l12"]
    /\ UNCHANGED <<dirs, files, args, random_binary, hex_representation,
                   handle, result, outputs, calls, pre, opens, closeOrder>>

\* open(file_path, "w") on the directories ds: the file is created or
\* emptied and the with body is entered, or the error leaves the function.
OpenAt(p, ds) ==
    /\ pc[p] = "l12"
    /\ dirs' = ds
    /\ opens' = [opens EXCEPT ![p] = @ + 1]
    /\ LET outcome == OpenOutcome(ds, files, file_path[p], OpenMode)
       IN  IF outcome = "ok"
           THEN /\ files' = OpenedFiles(files, file_path[p], OpenMode)
                /\ handle' = [handle EXCEPT ![p] =
                       [open |-> TRUE, path |-> file_path[p], mode |-> OpenMode,
                        pos |-> 0, buffer |-> <<>>]]
                /\ pc' = [pc EXCEPT ![p] = "l13"]
                /\ UNCHANGED result
           ELSE /\ result' = [result EXCEPT ![p] =
                       [kind |-> "error", value |-> <<outcome>>]]
                /\ pc' = [pc EXCEPT ![p] = "raised"]
                /\ UNCHANGED <<files, handle>>
    /\ UNCHANGED <<args, locals, outputs, calls, pre, closeOrder>>

\* os.makedirs(directory, exist_ok=True) before the open.
OpenMakedirs(p) == OpenAt(p, dirs \cup {Parent(Resolve(file_path[p]))})

\* with open(file_path, "w") as file:
Open(p) == OpenAt(p, dirs)

\* file.write(...) with the text sent to the file at once (buffering off).
WriteUnbuffered(p) ==
    /\ pc[p] = "l13"
    /\ files' = Flushed(files, handle[p], hex_representation[p])
    /\ handle' = [handle EXCEPT ![p].pos = @ + Len(hex_representation[p])]
    /\ pc' = [pc EXCEPT ![p] = "exit"]
    /\ UNCHANGED <<dirs, args, locals, result, outputs, calls, pre, opens,
                   closeOrder>>

\* file.write(hex_representation): the text file object keeps the 64
\* characters in its buffer; nothing reaches the file yet.
Write(p) ==
    /\ pc[p] = "l13"
    /\ handle' = [handle EXCEPT ![p].buffer = @ \o hex_representation[p]]
    /\ pc' = [pc EXCEPT ![p] = "exit"]
    /\ UNCHANGED <<dirs, files, args, locals, result, outputs, calls, pre,
                   opens, closeOrder>>

\* Leaving the with block: file.close() sends the buffer to the file in one
\* write and gives the descriptor back.
CloseOk(p) ==
    /\ pc[p] = "exit"
    /\ files' = Flushed(files, handle[p], handle[p].buffer)
    /\ handle' = [handle EXCEPT ![p] = Released(@, TRUE)]
    /\ closeOrder' = Append(closeOrder, p)
    /\ pc' = [pc EXCEPT ![p] = "l15"]
    /\ UNCHANGED <<dirs, args, locals, result, outputs, calls, pre, opens>>

\* Leaving the with block when the write fails (disk full, I/O error): a
\* part of the buffer has reached the file, the descriptor is given back
\* and the error leaves the function.
CloseFail(p) ==
    /\ pc[p] = "exit"
    /\ \E k \in ShortCounts(Len(handle[p].buffer)) :
          files' = Flushed(files, handle[p], SubSeq(handle[p].buffer, 1, k))
    /\ handle' = [handle EXCEPT ![p] = Released(@, FALSE)]
    /\ result' = [result EXCEPT ![p] = [kind |-> "error", value |-> <<"OSError">>]]
    /\ pc' = [pc EXCEPT ![p] = "raised"]
    /\ UNCHANGED <<dirs, args, locals, outputs, calls, pre, opens, closeOrder>>

\* return file_name
ReturnFileName(p) ==
    /\ pc[p] = "l15"
    /\ result' = [result EXCEPT ![p] = [kind |-> "value", value |-> file_name[p]]]
    /\ pc' = [pc EXCEPT ![p] = "returned"]
    /\ UNCHANGED <<dirs, files, args, locals, handle, outputs, calls, pre,
                   opens, closeOrder>>

\* return file_path
Return(p) ==
    /\ pc[p] = "l15"
    /\ result' = [result EXCEPT ![p] = [kind |-> "value", value |-> file_path[p]]]
    /\ pc' = [pc EXCEPT ![p] = "returned"]
    /\ UNCHANGED <<dirs, files, args, locals, handle, outputs, calls, pre,
                   opens, closeOrder>>

\* ------------------------------------------------------------- entry point
\* directory = "./crypto_data"; file_name = "link_secret.txt"
MainConfig(p) ==
    /\ pc[p] = "m18"
    /\ directory' = [directory EXCEPT ![p] = DirCrypto]
    /\ file_name' = [file_name EXCEPT ![p] = FileLink]
    /\ pc' = [pc EXCEPT ![p] = "m20"]
    /\ UNCHANGED <<dirs, files, locals, handle, result, outputs, calls, pre,
                   opens, closeOrder>>

\* file_path = generate_and_write_secret(directory, file_name)
MainCall(p) ==
    /\ pc[p] = "m20"
    /\ Enter(p, directory[p], file_name[p])

Confirmation(path) == <<"Saved LinkSecretFile to ">> \o path

\* print(f"Saved LinkSecretFile to {file_path}"), then exit status 0.
MainPrint(p) ==
    /\ pc[p] = "returned"
    /\ stdout' = [stdout EXCEPT ![p] = Append(@, Confirmation(result[p].value))]
    /\ pc' = [pc EXCEPT ![p] = "exit0"]
    /\ UNCHANGED <<dirs, files, args, locals, handle, result, stderr, calls,
                   pre, opens, closeOrder>>

\* The error caught and the confirmation printed all the same.
MainCrashPrints(p) ==
    /\ pc[p] = "raised"
    /\ stdout' = [stdout EXCEPT ![p] = Append(@, Confirmation(file_path[p]))]
    /\ pc' = [pc EXCEPT ![p] = "exit0"]
    /\ UNCHANGED <<dirs, files, args, locals, handle, result, stderr, calls,
                   pre, opens, closeOrder>>

\* The error is not caught: the interpreter prints the traceback and the
\* run ends with a non-zero status.
MainCrash(p) ==
    /\ pc[p] = "raised"
    /\ stderr' = [stderr EXCEPT ![p] = result[p].value]
    /\ pc' = [pc EXCEPT ![p] = "exit1"]
    /\ UNCHANGED <<dirs, files, args, locals, handle, result, stdout, calls,
                   pre, opens, closeOrder>>

\* ---------------------------------------------------------- specifications
Body(p) ==
    \/ GenerateStep(p)
    \/ HexStep(p)
    \/ JoinStep(p)
    \/ Open(p)
    \/ Write(p)
    \/ CloseOk(p)
    \/ CloseFail(p)
    \/ Return(p)

\* One caller, one call at a time, any arguments.
Callers == {1}

Init == InitProcs("idle") /\ InitFs

Next == \E p \in Callers : Call(p) \/ Body(p)

Spec == Init /\ [][Next]_vars

\* The runs of the script, started together on one file system.
InitMain == InitProcs("m18") /\ InitFs

NextMain ==
    \E p \in Procs :
        MainConfig(p) \/ MainCall(p) \/ Body(p) \/ MainPrint(p) \/ MainCrash(p)

SpecMain == InitMain /\ [][NextMain]_vars

\* ------------------------------------------------------------- properties
LowerHexChars ==
    {"0", "1", "2", "3", "4", "5", "6", "7",
     "8", "9", "a", "b", "c", "d", "e", "f"}

DigitValue(c) == CHOOSE v \in 0..15 : HexDigits[v + 1] = c

\* The bytes a text of hexadecimal digit pairs stands for.
Unhex(text) ==
    [i \in 1..(Len(text) \div 2) |->
        16 * DigitValue(text[2 * i - 1]) + DigitValue(text[2 * i])]

EncodedLen == 2 * SecretBytes

\* The file the call is to write: the one at join(directory, file_name).
Target(p) == Resolve(PathJoin(directory[p], file_name[p]))

Exists(node) == node \in DOMAIN files

IsPrefix(s, t) == Len(s) <= Len(t) /\ s = SubSeq(t, 1, Len(s))

\* C1: when a call has returned, the file at the returned path holds
\* exactly the hex encoding of the 32 bytes generated in that call: 64
\* characters, each in 0-9a-f, that decode to those bytes, nothing else.
C1_FileHoldsEncodedSecret ==
    \A p \in Callers :
        pc[p] = "returned" =>
            LET node == Resolve(result[p].value)
            IN  /\ Len(random_binary[p]) = SecretBytes
                /\ Exists(node)
                /\ Len(files[node]) = EncodedLen
                /\ \A i \in 1..Len(files[node]) : files[node][i] \in LowerHexChars
                /\ Unhex(files[node]) = random_binary[p]

\* A call has returned after creating a file that did not exist, and the
\* secret has a byte below 16 (a leading zero digit) in it.
C1_Witness ==
    \E p \in Callers :
        /\ pc[p] = "returned"
        /\ Resolve(result[p].value) \notin DOMAIN pre[p].files
        /\ Len(files[Resolve(result[p].value)]) = EncodedLen
        /\ \E i \in 1..SecretBytes : random_binary[p][i] < 16

\* C2: once a call has tried to open its file in a directory that does not
\* exist, or the open failed for any reason, the call has raised the
\* file-system error (no path returned), no file and no directory has been
\* created or changed, and open() was tried once only.
C2_MissingDirectoryFails ==
    \A p \in Callers :
        /\ (opens[p] > 0 /\ Resolve(directory[p]) \notin pre[p].dirs) =>
              /\ pc[p] = "raised"
              /\ result[p] = [kind |-> "error", value |-> <<"FileNotFoundError">>]
        /\ (pc[p] = "raised" /\ handle[p] = NoHandle) =>
              /\ result[p].kind = "error"
              /\ files = pre[p].files
              /\ dirs = pre[p].dirs
              /\ opens[p] = 1

\* A call with the directory /no/such/dir has raised.
C2_Witness ==
    \E p \in Callers :
        /\ pc[p] = "raised"
        /\ directory[p] = DirMissing
        /\ result[p].value = <<"FileNotFoundError">>
        /\ Resolve(directory[p]) \notin dirs

SameArgsAsLast(p) ==
    /\ pre[p].last.pc = "returned"
    /\ pre[p].last.directory = directory[p]
    /\ pre[p].last.file_name = file_name[p]

\* C3: when the second of two successful calls with the same directory and
\* file name has returned, the file holds exactly the second call's encoded
\* secret, 64 characters: nothing of the first call's text is left.
C3_SecondCallReplaces ==
    \A p \in Callers :
        (pc[p] = "returned" /\ SameArgsAsLast(p)) =>
            /\ pre[p].files[Target(p)] = pre[p].last.hex
            /\ files[Target(p)] = hex_representation[p]
            /\ Len(files[Target(p)]) = EncodedLen

\* Two successful calls on one path, with different secrets.
C3_Witness ==
    \E p \in Callers :
        /\ pc[p] = "returned"
        /\ SameArgsAsLast(p)
        /\ pre[p].last.hex # hex_representation[p]
        /\ files[Target(p)] = hex_representation[p]

\* C4: the file handle is open only inside the with block: whenever
\* control is outside it (before the open, after the close, after the
\* function returned or raised) the handle is closed.
C4_HandleReleased ==
    \A p \in Callers :
        handle[p].open => pc[p] \in {"l13", "exit"}

\* The write failed, the error left the function, and the handle that had
\* been opened is closed.
C4_Witness ==
    \E p \in Callers :
        /\ pc[p] = "raised"
        /\ result[p].value = <<"OSError">>
        /\ handle[p].path # <<>>
        /\ ~handle[p].open

AllExited0 == \A p \in Procs : pc[p] = "exit0"

LastClosed == closeOrder[Len(closeOrder)]

C6_OnlyTargetChanges ==
    \A p \in Callers :
        pc[p] # "idle" =>
            /\ dirs = pre[p].dirs
            /\ DOMAIN pre[p].files \subseteq DOMAIN files
            /\ \A node \in DOMAIN files :
                  node # Target(p) =>
                      /\ node \in DOMAIN pre[p].files
                      /\ files[node] = pre[p].files[node]
            /\ pc[p] = "returned" => Exists(Target(p))

\* A call has overwritten its file and the unrelated file is still there.
C6_Witness ==
    \E p \in Callers :
        /\ pc[p] = "returned"
        /\ Target(p) \in DOMAIN pre[p].files
        /\ files[Target(p)] # pre[p].files[Target(p)]
        /\ \E node \in DOMAIN files : node # Target(p)

\* C7: when a call has returned, the returned path is the join of the
\* directory and the file name (a separator between them unless the
\* directory already ends with one), and it is the path the file was
\* opened at.
C7_ReturnsJoinedPath ==
    \A p \in Callers :
        pc[p] = "returned" =>
            /\ result[p].kind = "value"
            /\ result[p].value = PathJoin(directory[p], file_name[p])
            /\ result[p].value = handle[p].path
            /\ result[p].value =
                  IF directory[p][Len(directory[p])] = Sep
                  THEN directory[p] \o file_name[p]
                  ELSE directory[p] \o <<Sep>> \o file_name[p]
            /\ (directory[p] = DirTmp /\ file_name[p] = FileOut) =>
                  result[p].value = <<"/", "tmp", "/", "out.txt">>

\* A call with a directory that ends with a separator has returned.
C7_Witness ==
    \E p \in Callers :
        /\ pc[p] = "returned"
        /\ directory[p] = DirTmpSlash
        /\ result[p].value = <<"/", "tmp", "/", "out.txt">>

InSeq(x, s) == \E i \in 1..Len(s) : s[i] = x

\* C8: a run of the script calls the operation with "./crypto_data" and
\* "link_secret.txt"; it has printed "Saved LinkSecretFile to <path>", with
\* the returned path, only if its file was written and closed; a run whose
\* call failed has printed nothing and ends with the error, and where
\* ./crypto_data does not exist nothing is ever printed.
C8_ConfirmationAfterWrite ==
    \A p \in Procs :
        /\ pc[p] \notin {"m18"} =>
              directory[p] = <<".", "/", "crypto_data">>
              /\ file_name[p] = <<"link_secret.txt">>
        /\ stdout[p] # <<>> =>
              /\ stdout[p] = << <<"Saved LinkSecretFile to ", ".", "/",
                                  "crypto_data", "/", "link_secret.txt">> >>
              /\ pc[p] = "exit0"
              /\ result[p] = [kind |-> "value",
                              value |-> PathJoin(directory[p], file_name[p])]
              /\ ~handle[p].open
              /\ InSeq(p, closeOrder)
        /\ pc[p] = "exit0" => stdout[p] # <<>>
        /\ pc[p] \in {"raised", "exit1"} => stdout[p] = <<>>
        /\ pc[p] = "exit1" => stderr[p] # <<>> /\ result[p].kind = "error"
        /\ CryptoNode \notin dirs => stdout[p] = <<>>

\* One run printed its confirmation and the other died of a failed write.
C8_Witness ==
    /\ pc[1] = "exit0"
    /\ Len(stdout[1]) = 1
    /\ pc[2] = "exit1"
    /\ stderr[2] = <<"OSError">>

\* C9: the file is emptied at open, before anything is written: between
\* the open and the close it is empty; and when a call that opened a file
\* holding an old secret then fails in its write, the file no longer holds
\* the old secret but a part, shorter than 64 characters and possibly
\* empty, of the new one.
C9_TruncatedAtOpen ==
    \A p \in Callers :
        /\ pc[p] \in {"l13", "exit"} => files[Target(p)] = <<>>
        /\ (/\ pc[p] = "raised"
            /\ handle[p] # NoHandle
            /\ Target(p) \in DOMAIN pre[p].files
            /\ Len(pre[p].files[Target(p)]) = EncodedLen) =>
              /\ files[Target(p)] # pre[p].files[Target(p)]
              /\ Len(files[Target(p)]) < EncodedLen
              /\ IsPrefix(files[Target(p)], hex_representation[p])

\* A failed call has left the file that held an old secret empty.
C9_Witness ==
    \E p \in Callers :
        /\ pc[p] = "raised"
        /\ result[p].value = <<"OSError">>
        /\ Target(p) \in DOMAIN pre[p].files
        /\ Len(pre[p].files[Target(p)]) = EncodedLen
        /\ files[Target(p)] = <<>>
        /\ files # pre[p].files

\* C10: when both racing runs have completed successfully, the file holds
\* the whole 64-character encoded secret of one of the two runs: it is not
\* empty, not a concatenation, not a mix of the two.
C10_WholeSecretOfOneRun ==
    AllExited0 =>
        /\ \E p \in Procs : files[Target(p)] = hex_representation[p]
        /\ \A p \in Procs : Len(files[Target(p)]) = EncodedLen

\* Both runs completed with different secrets, run 2 closing last, after
\* run 1 had the file open at the same time.
C10_Witness ==
    /\ AllExited0
    /\ closeOrder = <<1, 2>>
    /\ hex_representation[1] # hex_representation[2]
    /\ files[Target(2)] = hex_representation[2]

====
